---- MODULE Spec2Model ----
(***************************************************************************)
(* Model of the ENSO Foundation report: the on-chain readers and the       *)
(* holdings aggregator of report_dashboard.py (the Streamlit dashboard)    *)
(* and telegram_report.py (the digest), and the exchange volume            *)
(* normalizer of report_dashboard.py.                                      *)
(*                                                                         *)
(* Amounts are whole tokens: every reader divides the raw integer by       *)
(* 10**DECIMALS, the same unit change everywhere, so a response carries    *)
(* the token amount it stands for.  Sums are exact (Python adds floats).   *)
(*                                                                         *)
(* An HTTP exchange is one of three kinds:                                 *)
(*   "fail"       network error, timeout, non-200 status, or a body that   *)
(*                is not JSON (requests raises, safe_get swallows it);     *)
(*   "malformed"  status 200 and JSON, but not the expected shape          *)
(*                (status "1" with a non-numeric result, a result that is  *)
(*                not hex, a position record without deposit/expiry/id);   *)
(*   "ok"         status 200 with the expected payload.                    *)
(***************************************************************************)
EXTENDS Integers, Sequences, FiniteSets, TLC

VARIABLES
    script,              \* which program runs: "dashboard" | "digest"
    pc,                  \* position of the run
    i,                   \* index of the next wallet of FOUNDATION_WALLETS
    results,             \* load_holdings' results dict
    fetched,             \* history: per term, what the well-formed answers amount to
    seen,                \* history: did a fetch fail; the kind of answer that raised;
                         \* was a failed request issued again; the wallets whose
                         \* turn listed staked positions
    mm_amber, mm_jpeg,   \* dashboard sidebar inputs
    adj,                 \* dashboard: total_holdings_adj / total_sellable_adj
    call,                \* reader under test and its arguments
    ret,                 \* what that call returned (or that it raised)
    vols,                \* a volume loader: which one, next fetcher, results list
    tally,               \* history: what the fetchers that ran so far produced
    cache,               \* st.cache_data: the stored result of each cached call
    clock,               \* seconds since the dashboard process started
    requests,            \* the external fetches a script run has issued, in order
    produced             \* history: the last result each cached call computed
                         \* since the cache was last cleared, and when

vars == <<script, pc, i, results, fetched, seen, mm_amber, mm_jpeg, adj, call, ret,
          vols, tally, cache, clock, requests, produced>>

holdingsVars == <<script, pc, i, results, fetched, seen, mm_amber, mm_jpeg, adj>>
volVars == <<vols, tally>>
sessionVars == <<cache, clock, requests, produced>>

(***************************************************************************)
(* Bounds and constants                                                    *)
(***************************************************************************)
MaxAmt == 2          \* fetched balances, claimables, deposits, rewards: 0..MaxAmt
MaxPos == 2          \* staked positions of the treasury wallet
MaxTotal == 3        \* the six terms of a snapshot total at most MaxTotal
Now == 1             \* datetime.now(timezone.utc).timestamp()

MM_AMBER == 330940   \* MM_DEFAULTS["amber"]
MM_JPEG == 537202    \* MM_DEFAULTS["jpeg"]
MmStep == 10000      \* st.number_input(step=10000)

Amounts == 0..MaxAmt
Expiries == {Now - 1, Now, Now + 1}
Scripts == {"dashboard", "digest"}

\* FOUNDATION_WALLETS, in dict (iteration) order
FOUNDATION_WALLETS == <<
    [name |-> "treasury",              type |-> "liquid"],
    [name |-> "vesting_contract",      type |-> "vesting"],
    [name |-> "operational",           type |-> "liquid"],
    [name |-> "vesting_operational_1", type |-> "vesting"],
    [name |-> "vesting_operational_2", type |-> "vesting"],
    [name |-> "vesting_operational_3", type |-> "vesting"] >>

RPC_URLS == <<"llamarpc", "1rpc", "cloudflare">>

(***************************************************************************)
(* HTTP responses                                                          *)
(***************************************************************************)
None == [kind |-> "none", val |-> 0]
Fail == [kind |-> "fail", val |-> 0]
Malformed == [kind |-> "malformed", val |-> 0]
Ok(v) == [kind |-> "ok", val |-> v]

ValueResps == {Fail, Malformed} \cup {Ok(v) : v \in Amounts}

\* safe_get / safe_post: the parsed payload on status 200, None otherwise
safe_get(resp) == IF resp.kind = "fail" THEN None ELSE resp
safe_post(resp) == IF resp.kind = "fail" THEN None ELSE resp

Max(a, b) == IF a >= b THEN a ELSE b

RECURSIVE SumSeq(_)
SumSeq(s) == IF s = <<>> THEN 0 ELSE Head(s) + SumSeq(Tail(s))

(***************************************************************************)
(* On-chain readers.  A reader returns [raised, val]: raised = TRUE stands *)
(* for an exception leaving the function.                                  *)
(***************************************************************************)
Ret(v) == [raised |-> FALSE, val |-> v]
Raise == [raised |-> TRUE, val |-> 0]

\* get_token_balance without safe_get's catch-all: a failed request raises
get_token_balance_uncaught(resp) ==
    IF resp.kind = "ok" THEN Ret(resp.val) ELSE Raise

\* get_token_balance: int(data["result"]) sits outside any try, so a
\* status-"1" payload whose result is not a number raises ValueError.
get_token_balance(resp) ==
    LET data == safe_get(resp) IN
    IF data.kind = "none" THEN Ret(0)
    ELSE IF data.kind = "malformed" THEN Raise
    ELSE Ret(data.val)

\* get_bsc_token_balance: int(result, 16) is inside try/except (ValueError, TypeError)
get_bsc_token_balance(resp) ==
    LET data == safe_post(resp) IN
    IF data.kind = "none" THEN Ret(0)
    ELSE IF data.kind = "malformed" THEN Ret(0)
    ELSE Ret(data.val)

\* get_vesting_info without the floor at zero
get_vesting_info_unclamped(balResp, clResp) ==
    LET balance == get_token_balance(balResp) IN
    IF balance.raised
    THEN [raised |-> TRUE, balance |-> 0, vested_unclaimed |-> 0, locked |-> 0]
    ELSE LET vested_unclaimed == IF clResp.kind = "ok" THEN clResp.val ELSE 0
         IN [raised |-> FALSE,
             balance |-> balance.val,
             vested_unclaimed |-> vested_unclaimed,
             locked |-> balance.val - vested_unclaimed]

\* get_vesting_info: balance first, then the claimable eth_call, whose
\* int(result, 16) is inside try/except; locked = max(0, balance - vested_unclaimed)
get_vesting_info(balResp, clResp) ==
    LET balance == get_token_balance(balResp) IN
    IF balance.raised
    THEN [raised |-> TRUE, balance |-> 0, vested_unclaimed |-> 0, locked |-> 0]
    ELSE LET data == safe_get(clResp)
             vested_unclaimed ==
                 IF data.kind = "none" THEN 0
                 ELSE IF data.kind = "malformed" THEN 0
                 ELSE data.val
         IN [raised |-> FALSE,
             balance |-> balance.val,
             vested_unclaimed |-> vested_unclaimed,
             locked |-> Max(0, balance.val - vested_unclaimed)]

\* The raw position records of the indexer / the rows of the dataset: ids are
\* unique, in listing order
PositionLists ==
    UNION {{[k \in 1..n |-> [id |-> k, deposit |-> f[k].deposit, expiry |-> f[k].expiry]] :
               f \in [1..n -> [deposit : 1..MaxAmt, expiry : Expiries]]} :
           n \in 0..MaxPos}

NoList == [kind |-> "unused", list |-> <<>>]
ListResps == {[kind |-> "fail", list |-> <<>>], [kind |-> "malformed", list |-> <<>>]}
             \cup {[kind |-> "ok", list |-> l] : l \in PositionLists}

\* position with a strict comparison: expiry = now still counts as locked
position_strict(p, now) ==
    [id |-> p.id, deposit |-> p.deposit, expiry_ts |-> p.expiry,
     is_expired |-> (p.expiry < now)]

\* the position dict both get_staked_positions build from a record
position(p, now) ==
    [id |-> p.id, deposit |-> p.deposit, expiry_ts |-> p.expiry,
     is_expired |-> (p.expiry <= now)]

\* report_dashboard.get_staked_positions: the indexer query.  p["deposit"],
\* p["expiry"], p["id"] are read outside any try: a record without one of
\* them raises KeyError.
dash_get_staked_positions(resp, now) ==
    LET data == safe_post(resp) IN
    IF data.kind = "none" THEN [raised |-> FALSE, val |-> <<>>]
    ELSE IF data.kind = "malformed" THEN [raised |-> TRUE, val |-> <<>>]
    ELSE [raised |-> FALSE,
          val |-> [k \in DOMAIN data.list |-> position(data.list[k], now)]]

\* telegram_report.get_staked_positions: the dataset files, in order; a
\* missing file is skipped, an unreadable or misshapen one is swallowed by
\* except Exception, one without rows of the owner is skipped.
RECURSIVE tg_get_staked_positions(_, _)
tg_get_staked_positions(csvs, now) ==
    IF csvs = <<>> THEN [raised |-> FALSE, val |-> <<>>]
    ELSE LET c == Head(csvs) IN
         IF c.kind = "ok" /\ c.list # <<>>
         THEN [raised |-> FALSE,
               val |-> [k \in DOMAIN c.list |-> position(c.list[k], now)]]
         ELSE tg_get_staked_positions(Tail(csvs), now)

\* report_dashboard.get_position_rewards: int(result, 16) inside try/except
get_position_rewards(resp) ==
    LET data == safe_post(resp) IN
    IF data.kind = "none" THEN Ret(0)
    ELSE IF data.kind = "malformed" THEN Ret(0)
    ELSE Ret(data.val)

\* One sub-call of a multicall answer: (success, ret_data), ret_data being
\* len bytes that hold val
SubResults ==
    {[success |-> FALSE, len |-> 0, val |-> 0], [success |-> TRUE, len |-> 0, val |-> 0]}
    \cup {[success |-> TRUE, len |-> 32, val |-> v] : v \in Amounts}

\* telegram_report.get_all_position_rewards: the endpoints of RPC_URLS in
\* order; the first answer that decodes decides, a failed or undecodable
\* one moves on to the next endpoint; all zeros when none answers.
\* The result maps the index of a position to its reward.
\* (Variant: one failed sub-call of the answer voids the whole answer.)
RECURSIVE get_all_position_rewards_all_or_nothing(_, _)
get_all_position_rewards_all_or_nothing(n, batches) ==
    IF n = 0 THEN <<>>
    ELSE IF batches = <<>> THEN [k \in 1..n |-> 0]
    ELSE LET b == Head(batches) IN
         IF b.kind = "ok"
         THEN [k \in 1..n |-> IF \A j \in 1..n : b.subs[j].success /\ b.subs[j].len >= 32
                               THEN b.subs[k].val ELSE 0]
         ELSE get_all_position_rewards_all_or_nothing(n, Tail(batches))

RECURSIVE get_all_position_rewards(_, _)
get_all_position_rewards(n, batches) ==
    IF n = 0 THEN <<>>
    ELSE IF batches = <<>> THEN [k \in 1..n |-> 0]
    ELSE LET b == Head(batches) IN
         IF b.kind = "ok"
         THEN [k \in 1..n |-> IF b.subs[k].success /\ b.subs[k].len >= 32
                               THEN b.subs[k].val ELSE 0]
         ELSE get_all_position_rewards(n, Tail(batches))


(***************************************************************************)
(* load_holdings, one action per iteration of its loop over                *)
(* FOUNDATION_WALLETS, then the totals after the loop.                     *)
(***************************************************************************)
\* the history of a run that has not fetched anything.  sources: whether the
\* indexer and the dataset file hold positions of the treasury in this run
\* (the source the script does not read is noted when its own gave none), and
\* whether the script's own read of the positions failed.
\* summed_at: the clock when the staked totals were summed
NothingSeen ==
    [failed |-> FALSE, cause |-> "none", retried |-> FALSE, staking |-> <<>>,
     sources |-> [indexer |-> FALSE, dataset |-> FALSE, failed |-> FALSE], summed_at |-> Now]

\* no dashboard session: nothing cached, nothing requested
SessionIdle ==
    /\ cache = <<>>
    /\ clock = 0
    /\ requests = <<>>
    /\ produced = <<>>

\* no KRW-quoted adapter has run
NoKrw ==
    [ran |-> FALSE, exchange |-> "", resp |-> [kind |-> "fail", rows |-> <<>>],
     rate |-> [kind |-> "unused", val |-> 0], result |-> [raised |-> FALSE, val |-> [none |-> TRUE]]]

\* no volume loader is running
VolumesIdle ==
    /\ vols = [loader |-> "none", i |-> 0, results |-> <<>>]
    /\ tally = [ran |-> 0, succeeded |-> 0, failed |-> {}, avg_num |-> 0, lost |-> FALSE,
                oi_kept |-> TRUE, krw |-> NoKrw]

ZeroResults ==
    [liquid |-> 0, liquid_bsc |-> 0, vested_unclaimed |-> 0, locked_vesting |-> 0,
     staked_total |-> 0, staked_expired |-> 0, staked_locked |-> 0,
     rewards |-> 0, positions |-> <<>>,
     mm_holdings |-> 0, total_sellable |-> 0, total_holdings |-> 0]

ZeroFetched ==
    [liquid |-> 0, liquid_bsc |-> 0, vested_unclaimed |-> 0, locked_vesting |-> 0,
     rewards |-> 0, reads |-> <<>>]

\* the bound of the model on a run: the terms gathered so far
Within(r) ==
    r.liquid + r.liquid_bsc + r.vested_unclaimed + r.locked_vesting
        + r.staked_total + r.rewards <= MaxTotal

\* what an answer amounts to: its value when well-formed, nothing otherwise
Term(resp) == IF resp.kind = "ok" THEN resp.val ELSE 0

\* a fetch that failed: network error, timeout, non-200, unreadable file
Failed(resp) == resp.kind = "fail"

InitHoldings ==
    /\ script \in Scripts
    /\ pc = "loading"
    /\ i = 1
    /\ results = ZeroResults
    /\ fetched = ZeroFetched
    /\ seen = NothingSeen
    /\ mm_amber = 0
    /\ mm_jpeg = 0
    /\ adj = [total_holdings_adj |-> 0, total_sellable_adj |-> 0]
    /\ call = <<>>
    /\ ret = <<>>
    /\ VolumesIdle
    /\ SessionIdle

\* every wallet of the else branch lists staked positions
fetches_positions_every_liquid(name) == TRUE

\* if name == "treasury"
fetches_positions(name) == name = "treasury"

\* an exception leaves load_holdings from get_staked_positions
RaisedInPositions(kind) ==
    /\ pc' = "raised"
    /\ seen' = [seen EXCEPT !.cause = kind,
                            !.staking = Append(@, FOUNDATION_WALLETS[i].name)]
    /\ UNCHANGED <<script, i, results, fetched, mm_amber, mm_jpeg, adj, call, ret, volVars, sessionVars>>

\* an exception leaves load_holdings: nothing is returned
Raised(kind) ==
    /\ pc' = "raised"
    /\ seen' = [seen EXCEPT !.cause = kind]
    /\ UNCHANGED <<script, i, results, fetched, mm_amber, mm_jpeg, adj, call, ret, volVars, sessionVars>>

\* if info["type"] == "vesting": ...
LoadVesting ==
    /\ pc = "loading"
    /\ i \in DOMAIN FOUNDATION_WALLETS
    /\ FOUNDATION_WALLETS[i].type = "vesting"
    /\ \E balResp \in ValueResps, clResp \in ValueResps :
          LET vi == get_vesting_info(balResp, clResp) IN
          IF vi.raised
          THEN Raised(balResp.kind)
          ELSE /\ results' = [results EXCEPT
                       !.vested_unclaimed = @ + vi.vested_unclaimed,
                       !.locked_vesting = @ + vi.locked]
               /\ Within(results')
               /\ fetched' = [fetched EXCEPT
                       !.vested_unclaimed = @ + Term(clResp),
                       !.locked_vesting = @ + Max(0, Term(balResp) - Term(clResp))]
               /\ seen' = [seen EXCEPT
                       !.failed = @ \/ Failed(balResp) \/ Failed(clResp)]
               /\ i' = i + 1
               /\ UNCHANGED <<script, pc, mm_amber, mm_jpeg, adj, call, ret, volVars, sessionVars>>

\* else: ... (a liquid wallet other than the treasury)
LoadLiquid ==
    /\ pc = "loading"
    /\ i \in DOMAIN FOUNDATION_WALLETS
    /\ FOUNDATION_WALLETS[i].type = "liquid"
    /\ ~fetches_positions(FOUNDATION_WALLETS[i].name)
    /\ \E balResp \in ValueResps, bscResp \in ValueResps :
          LET bal == get_token_balance(balResp)
              bsc_bal == get_bsc_token_balance(bscResp)
          IN
          IF bal.raised
          THEN Raised(balResp.kind)
          ELSE /\ results' = [results EXCEPT
                       !.liquid = @ + bal.val,
                       !.liquid_bsc = @ + bsc_bal.val]
               /\ Within(results')
               /\ fetched' = [fetched EXCEPT
                       !.liquid = @ + Term(balResp),
                       !.liquid_bsc = @ + Term(bscResp)]
               /\ seen' = [seen EXCEPT
                       !.failed = @ \/ Failed(balResp) \/ Failed(bscResp)]
               /\ i' = i + 1
               /\ UNCHANGED <<script, pc, mm_amber, mm_jpeg, adj, call, ret, volVars, sessionVars>>

\* the staked sums with every deposit in both parts
Deposits_of_every_position(positions, expired) ==
    SumSeq([k \in DOMAIN positions |-> positions[k].deposit])

\* the staked sums load_holdings takes from the positions
Deposits(positions, expired) ==
    SumSeq([k \in DOMAIN positions |->
              IF positions[k].is_expired = expired THEN positions[k].deposit ELSE 0])

WithRewards(positions, rewards) ==
    [k \in DOMAIN positions |->
        [id |-> positions[k].id, deposit |-> positions[k].deposit,
         expiry_ts |-> positions[k].expiry_ts,
         is_expired |-> positions[k].is_expired, rewards |-> rewards[k]]]

\* Staked with staked_total summed over the locked positions only
Staked_total_of_locked(positions, rewards) ==
    [staked_total |-> Deposits(positions, FALSE),
     staked_expired |-> Deposits(positions, TRUE),
     staked_locked |-> Deposits(positions, FALSE),
     rewards |-> SumSeq(rewards),
     positions |-> WithRewards(positions, rewards)]

\* if name == "treasury": the staked positions and their rewards
Staked(positions, rewards) ==
    [staked_total |-> SumSeq([k \in DOMAIN positions |-> positions[k].deposit]),
     staked_expired |-> Deposits(positions, TRUE),
     staked_locked |-> Deposits(positions, FALSE),
     rewards |-> SumSeq(rewards),
     positions |-> WithRewards(positions, rewards)]

TreasuryDone(balResp, bscResp, bal, bsc_bal, st, rewardTerms, anyFailed, again, sources, reads) ==
    /\ results' = [results EXCEPT
            !.liquid = @ + bal.val,
            !.liquid_bsc = @ + bsc_bal.val,
            !.staked_total = st.staked_total,
            !.staked_expired = st.staked_expired,
            !.staked_locked = st.staked_locked,
            !.rewards = st.rewards,
            !.positions = st.positions]
    /\ Within(results')
    /\ fetched' = [fetched EXCEPT
            !.liquid = @ + Term(balResp),
            !.liquid_bsc = @ + Term(bscResp),
            !.rewards = @ + rewardTerms,
            !.reads = reads]
    \* the reward fetches and their delays take time when there are positions
    /\ \E elapsed \in (IF st.positions = <<>> THEN {0} ELSE {0, 1}) :
          seen' = [seen EXCEPT
            !.failed = @ \/ Failed(balResp) \/ Failed(bscResp) \/ anyFailed,
            !.retried = @ \/ again,
            !.staking = Append(@, FOUNDATION_WALLETS[i].name),
            !.sources = sources,
            !.summed_at = Now + elapsed]
    /\ i' = i + 1
    /\ UNCHANGED <<script, pc, mm_amber, mm_jpeg, adj, call, ret, volVars, sessionVars>>

\* the part of the model's bound an iteration can decide before it ends
Fits(n) == n <= MaxTotal

ListTerm(l) == SumSeq([k \in DOMAIN l |-> l[k].deposit])

\* report_dashboard.load_holdings, the treasury wallet: positions from the
\* indexer, then one get_position_rewards per position
LoadTreasuryDashboard ==
    /\ script = "dashboard"
    /\ pc = "loading"
    /\ i \in DOMAIN FOUNDATION_WALLETS
    /\ FOUNDATION_WALLETS[i].type = "liquid"
    /\ fetches_positions(FOUNDATION_WALLETS[i].name)
    /\ \E balResp \in ValueResps :
          LET bal == get_token_balance(balResp) IN
          IF bal.raised THEN Raised(balResp.kind)
          ELSE \E bscResp \in ValueResps, posResp \in ListResps :
                 LET bsc_bal == get_bsc_token_balance(bscResp)
                     positions == dash_get_staked_positions(posResp, Now)
                 IN
                 /\ Fits(bal.val + bsc_bal.val + ListTerm(posResp.list))
                 /\ IF positions.raised THEN RaisedInPositions(posResp.kind)
                    ELSE \E rewResps \in [DOMAIN positions.val -> ValueResps],
                            dataset \in (IF posResp.list = <<>> THEN BOOLEAN ELSE {FALSE}) :
                           LET rewards == [k \in DOMAIN rewResps |->
                                              get_position_rewards(rewResps[k]).val]
                           IN TreasuryDone(balResp, bscResp, bal, bsc_bal,
                                  Staked(positions.val, rewards),
                                  SumSeq([k \in DOMAIN rewResps |-> Term(rewResps[k])]),
                                  Failed(posResp)
                                      \/ \E k \in DOMAIN rewResps : Failed(rewResps[k]),
                                  FALSE,
                                  [indexer |-> posResp.list # <<>>, dataset |-> dataset,
                                   failed |-> posResp.kind = "fail"],
                                  [k \in DOMAIN rewResps |->
                                      [ok |-> rewResps[k].kind = "ok",
                                       val |-> rewResps[k].val]])

\* the multicall traffic of one get_all_position_rewards: nf endpoints give
\* no usable answer (kind fk), the next one, if any is left, answers subs
Batches(nf, fk, subs) ==
    [k \in 1..(IF nf < Len(RPC_URLS) THEN nf + 1 ELSE nf) |->
        IF k <= nf THEN [kind |-> fk, subs |-> <<>>]
        ELSE [kind |-> "ok", subs |-> subs]]

SubTerm(sub) == IF sub.success /\ sub.len >= 32 THEN sub.val ELSE 0

\* what the first decoded multicall answer amounts to
BatchTerms(batches) ==
    IF batches # <<>> /\ batches[Len(batches)].kind = "ok"
    THEN SumSeq([k \in DOMAIN batches[Len(batches)].subs |->
                    SubTerm(batches[Len(batches)].subs[k])])
    ELSE 0

\* history: per position, whether its sub-call of the decoded answer gave an
\* amount, and the amount
BatchReads(n, batches) ==
    [k \in 1..n |->
        IF batches # <<>> /\ batches[Len(batches)].kind = "ok"
        THEN LET sub == batches[Len(batches)].subs[k] IN
             [ok |-> sub.success /\ sub.len >= 32, val |-> sub.val]
        ELSE [ok |-> FALSE, val |-> 0]]

BatchFailed(batches) ==
    \E k \in DOMAIN batches :
        \/ batches[k].kind # "ok"
        \/ \E j \in DOMAIN batches[k].subs :
              ~(batches[k].subs[j].success /\ batches[k].subs[j].len >= 32)

\* for rpc in RPC_URLS: a multicall request that failed is followed by the
\* same request to the next endpoint
Reposted(batches) ==
    \E k \in DOMAIN batches : k > 1 /\ batches[k - 1].kind = "fail"

\* telegram_report.load_holdings, the treasury wallet: positions from the
\* dataset (the second file is read only when the first gave no positions),
\* then one get_all_position_rewards for all of them
LoadTreasuryDigest ==
    /\ script = "digest"
    /\ pc = "loading"
    /\ i \in DOMAIN FOUNDATION_WALLETS
    /\ FOUNDATION_WALLETS[i].type = "liquid"
    /\ fetches_positions(FOUNDATION_WALLETS[i].name)
    /\ \E balResp \in ValueResps :
          LET bal == get_token_balance(balResp) IN
          IF bal.raised THEN Raised(balResp.kind)
          ELSE \E bscResp \in ValueResps, c1 \in ListResps :
               \E c2 \in (IF c1.list # <<>> THEN {NoList} ELSE ListResps) :
                 LET bsc_bal == get_bsc_token_balance(bscResp)
                     csvs == IF c1.list # <<>> THEN <<c1>> ELSE <<c1, c2>>
                     positions == tg_get_staked_positions(csvs, Now)
                     n == Len(positions.val)
                 IN
                 /\ Fits(bal.val + bsc_bal.val + ListTerm(c1.list) + ListTerm(c2.list))
                 /\ \E subs \in [1..n -> SubResults] :
                      /\ Fits(bal.val + bsc_bal.val + ListTerm(c1.list) + ListTerm(c2.list)
                              + SumSeq([k \in 1..n |-> SubTerm(subs[k])]))
                      /\ \E nf \in 0..Len(RPC_URLS), fk \in {"fail", "malformed"},
                               indexer \in (IF n = 0 THEN BOOLEAN ELSE {FALSE}) :
                           LET batches == IF n = 0 THEN <<>> ELSE Batches(nf, fk, subs)
                               rewards_map == get_all_position_rewards(n, batches)
                           IN TreasuryDone(balResp, bscResp, bal, bsc_bal,
                                  Staked(positions.val, rewards_map),
                                  BatchTerms(batches),
                                  (\E k \in DOMAIN csvs : csvs[k].kind # "ok")
                                      \/ BatchFailed(batches),
                                  Reposted(batches),
                                  [indexer |-> indexer,
                                   dataset |-> c1.list # <<>> \/ c2.list # <<>>,
                                   failed |-> \A k \in DOMAIN csvs : csvs[k].kind # "ok"],
                                  BatchReads(n, batches))

\* total_sellable with the whole stake instead of the expired part
total_sellable_whole_stake(r) ==
    r.liquid + r.liquid_bsc + r.vested_unclaimed + r.staked_total + r.rewards

\* results["total_sellable"], the same expression in both programs
total_sellable(r) ==
    r.liquid + r.liquid_bsc + r.vested_unclaimed + r.staked_expired + r.rewards

\* results["total_holdings"] of report_dashboard.load_holdings
dash_total_holdings(r) ==
    r.liquid + r.liquid_bsc + r.vested_unclaimed + r.locked_vesting + r.staked_total
        + r.rewards

\* results["total_holdings"] of telegram_report.load_holdings: mm_holdings,
\* sum(MM_DEFAULTS.values()), is one of its terms
tg_total_holdings(r, mm_holdings) ==
    r.liquid + r.liquid_bsc + r.vested_unclaimed + r.locked_vesting + r.staked_total
        + r.rewards + mm_holdings

\* after the loop: total_sellable, total_holdings (and the digest's mm_holdings)
Finish ==
    /\ pc = "loading"
    /\ i = Len(FOUNDATION_WALLETS) + 1
    /\ LET mm_holdings == IF script = "digest" THEN MM_AMBER + MM_JPEG ELSE 0
       IN results' = [results EXCEPT
              !.mm_holdings = mm_holdings,
              !.total_sellable = total_sellable(results),
              !.total_holdings = IF script = "digest"
                                 THEN tg_total_holdings(results, mm_holdings)
                                 ELSE dash_total_holdings(results)]
    /\ pc' = "returned"
    /\ UNCHANGED <<script, i, fetched, seen, mm_amber, mm_jpeg, adj, call, ret, volVars, sessionVars>>

\* report_dashboard.py after the loaders: the sidebar's market-maker inputs
\* are added to the holdings total, the sellable total is taken as it is
total_holdings_adj(holdings, mm_holdings) == holdings.total_holdings + mm_holdings
total_sellable_adj(holdings, mm_holdings) == holdings.total_sellable

Render ==
    /\ script = "dashboard"
    /\ pc = "returned"
    /\ \E a \in {0, MmStep}, j \in {0, MmStep} :
          /\ mm_amber' = a
          /\ mm_jpeg' = j
          /\ adj' = [total_holdings_adj |-> total_holdings_adj(results, a + j),
                     total_sellable_adj |-> total_sellable_adj(results, a + j)]
    /\ pc' = "rendered"
    /\ UNCHANGED <<script, i, results, fetched, seen, call, ret, volVars, sessionVars>>

Next ==
    \/ LoadVesting
    \/ LoadLiquid
    \/ LoadTreasuryDashboard
    \/ LoadTreasuryDigest
    \/ Finish
    \/ Render

Spec == InitHoldings /\ [][Next]_vars

(***************************************************************************)
(* Claims about the holdings snapshot                                      *)
(***************************************************************************)
\* load_holdings has returned its snapshot
InSnapshot == pc \in {"returned", "rendered"}

SixTerms(r) ==
    r.liquid + r.liquid_bsc + r.vested_unclaimed + r.locked_vesting + r.staked_total
        + r.rewards

\* C1: every snapshot load_holdings returns, in the dashboard and in the
\* digest, has total_holdings equal to the sum of its six terms, the
\* market-maker holdings not being among them.
C1_TotalHoldingsIsSixTerms ==
    InSnapshot => results.total_holdings = SixTerms(results)

\* C2: every snapshot has total_sellable = liquid + liquid_bsc +
\* vested_unclaimed + staked_expired + rewards, whatever fetches failed, and
\* the dashboard shows that figure with no market-maker holdings added.
C2_TotalSellable ==
    /\ InSnapshot =>
          results.total_sellable =
              results.liquid + results.liquid_bsc + results.vested_unclaimed
                  + results.staked_expired + results.rewards
    /\ pc = "rendered" =>
          adj.total_sellable_adj =
              results.liquid + results.liquid_bsc + results.vested_unclaimed
                  + results.staked_expired + results.rewards

\* a rendered dashboard whose snapshot has locked vesting, a locked stake
\* and market-maker holdings beside sellable tokens, after a failed fetch
C2_Witness ==
    /\ pc = "rendered"
    /\ seen.failed
    /\ results.locked_vesting > 0
    /\ results.staked_locked > 0
    /\ mm_amber + mm_jpeg > 0
    /\ results.total_sellable > 0

\* C3: with non-negative fetched values, total_sellable <= total_holdings in
\* every snapshot, and the same for the dashboard's adjusted totals.
C3_SellableAtMostHoldings ==
    /\ InSnapshot => results.total_sellable <= results.total_holdings
    /\ pc = "rendered" => adj.total_sellable_adj <= adj.total_holdings_adj

\* a snapshot with a clamped vesting wallet (claimable above the balance
\* leaves locked at 0) in which the two totals differ
C3_Witness ==
    /\ InSnapshot
    /\ results.vested_unclaimed > 0
    /\ results.locked_vesting = 0
    /\ 0 < results.total_sellable
    /\ results.total_sellable < results.total_holdings

\* C4: a fetch that fails (network error, timeout, non-200) never raises out
\* of load_holdings; the loop still visits every wallet, and each term of the
\* snapshot is what the well-formed answers amount to, a failed fetch
\* counting 0.
C4_PartialFailure ==
    /\ pc = "raised" => seen.cause = "malformed"
    /\ InSnapshot => i = Len(FOUNDATION_WALLETS) + 1
    /\ pc # "raised" =>
          /\ results.liquid = fetched.liquid
          /\ results.liquid_bsc = fetched.liquid_bsc
          /\ results.vested_unclaimed = fetched.vested_unclaimed
          /\ results.locked_vesting = fetched.locked_vesting
          /\ results.rewards = fetched.rewards

\* a returned snapshot of a run in which a fetch failed, with other terms present
C4_Witness ==
    /\ pc = "returned"
    /\ seen.failed
    /\ i = Len(FOUNDATION_WALLETS) + 1
    /\ results.liquid > 0
    /\ results.locked_vesting > 0

\* C5: no fetch-related failure, a parse failure included, ever leaves the
\* readers or load_holdings as an exception.
C5_NoExceptionPropagates == pc # "raised"

\* the positions of the snapshot that have expired at now, by their expiry
ExpiredAt(positions, now) ==
    SumSeq([k \in DOMAIN positions |->
              IF positions[k].expiry_ts <= now THEN positions[k].deposit ELSE 0])

LockedAt(positions, now) ==
    SumSeq([k \in DOMAIN positions |->
              IF positions[k].expiry_ts > now THEN positions[k].deposit ELSE 0])

\* C7: a position is flagged is_expired exactly when expiry <= now, so the
\* deposits with expiry <= now (expiry = now included) make up staked_expired
\* and are part of total_sellable, and the others make up staked_locked.
C7_ExpiredIffExpiryAtMostNow ==
    /\ \A k \in DOMAIN results.positions :
          results.positions[k].is_expired <=> results.positions[k].expiry_ts <= Now
    /\ results.staked_expired = ExpiredAt(results.positions, Now)
    /\ results.staked_locked = LockedAt(results.positions, Now)
    /\ InSnapshot =>
          results.total_sellable =
              results.liquid + results.liquid_bsc + results.vested_unclaimed
                  + results.rewards + ExpiredAt(results.positions, Now)

\* a snapshot whose only position expires exactly now: its deposit is in
\* staked_expired and in total_sellable, and staked_locked is 0
C7_Witness ==
    /\ InSnapshot
    /\ Len(results.positions) = 1
    /\ results.positions[1].expiry_ts = Now
    /\ results.staked_expired = results.positions[1].deposit
    /\ results.staked_locked = 0
    /\ results.total_sellable >= results.positions[1].deposit

\* C23: the dataset is a fallback for staked positions: when the indexer
\* gives no positions they are taken from the dataset if it holds them, and
\* the positions of a snapshot are empty only when neither source gives any.
C23_DatasetIsFallback ==
    InSnapshot =>
        (results.positions = <<>> <=> (~seen.sources.indexer /\ ~seen.sources.dataset))

\* C25: the expired-versus-locked partition of a snapshot is the one at the
\* time the staked totals are summed: a position whose expiry falls between
\* the listing of the positions and the summing, after the reward fetches,
\* is counted in staked_expired, not in staked_locked.
C25_PartitionAtAggregationTime ==
    InSnapshot =>
        /\ results.staked_expired = ExpiredAt(results.positions, seen.summed_at)
        /\ results.staked_locked = LockedAt(results.positions, seen.summed_at)

\* C30: in every snapshot staked_total = staked_expired + staked_locked,
\* the two parts are the deposits of two disjoint sets of positions that
\* together are all the positions, and all three are 0 when the list of
\* positions is empty or its fetch failed.
C30_StakedTotalIsExpiredPlusLocked ==
    InSnapshot =>
        /\ results.staked_total = results.staked_expired + results.staked_locked
        /\ results.staked_total = ListTerm(results.positions)
        /\ \E E \in SUBSET DOMAIN results.positions :
              /\ results.staked_expired =
                    SumSeq([k \in DOMAIN results.positions |->
                              IF k \in E THEN results.positions[k].deposit ELSE 0])
              /\ results.staked_locked =
                    SumSeq([k \in DOMAIN results.positions |->
                              IF k \in E THEN 0 ELSE results.positions[k].deposit])
        /\ (results.positions = <<>> \/ seen.sources.failed) =>
              /\ results.staked_total = 0
              /\ results.staked_expired = 0
              /\ results.staked_locked = 0

\* a snapshot with one expired and one locked position, each in its part
C30_Witness ==
    /\ InSnapshot
    /\ Len(results.positions) = 2
    /\ results.staked_expired > 0
    /\ results.staked_locked > 0
    /\ results.staked_total = results.staked_expired + results.staked_locked

\* a snapshot after a failed fetch of the positions: the three are 0
C30_FailedFetchWitness ==
    /\ InSnapshot
    /\ seen.sources.failed
    /\ results.positions = <<>>
    /\ results.staked_total = 0
    /\ results.total_holdings > 0

\* C27: every position of a snapshot carries a rewards value, the fetched
\* amount when its reward read succeeded and 0 when it failed (a failed
\* request, a failed sub-call of the batch, the batch failing on every
\* endpoint), whatever the reads of the other positions did; the rewards term
\* of the snapshot is the sum of these values.
C27_RewardPerPosition ==
    InSnapshot =>
        /\ Len(fetched.reads) = Len(results.positions)
        /\ \A k \in DOMAIN results.positions :
              results.positions[k].rewards =
                  IF fetched.reads[k].ok THEN fetched.reads[k].val ELSE 0
        /\ results.rewards =
              SumSeq([k \in DOMAIN results.positions |-> results.positions[k].rewards])

\* two positions in a digest snapshot: the sub-call of the first failed, the
\* second carries its fetched amount
C27_Witness ==
    /\ InSnapshot
    /\ script = "digest"
    /\ Len(results.positions) = 2
    /\ ~fetched.reads[1].ok
    /\ fetched.reads[2].ok
    /\ results.positions[1].rewards = 0
    /\ results.positions[2].rewards > 0
    /\ results.rewards = results.positions[2].rewards

StakedFields(r) ==
    <<r.staked_total, r.staked_expired, r.staked_locked, r.rewards, r.positions>>

\* C22: in each run of load_holdings the staking-position fetch is triggered
\* exactly once, in the turn of the treasury wallet; the turn of a vesting
\* wallet or of another liquid wallet triggers none and leaves the staked and
\* rewards fields of the snapshot as they are.
C22_OnlyTreasuryFetchesPositions ==
    [][/\ (pc = "loading" /\ i \in DOMAIN FOUNDATION_WALLETS) =>
            IF FOUNDATION_WALLETS[i].name = "treasury"
            THEN pc' = "loading" => seen'.staking = Append(seen.staking, "treasury")
            ELSE /\ seen'.staking = seen.staking
                 /\ StakedFields(results') = StakedFields(results)
       /\ pc' = "returned" =>
            /\ seen'.staking = <<"treasury">>
            /\ StakedFields(results') = StakedFields(results)]_vars

\* a snapshot with a staked position and liquid balances, positions listed once
C22_Witness ==
    /\ InSnapshot
    /\ seen.staking = <<"treasury">>
    /\ results.staked_total > 0
    /\ results.liquid > 0
    /\ results.locked_vesting > 0

\* C19: within one report run no operation is retried: after a balance,
\* claimable, position, reward or exchange call fails, no further request is
\* issued for that same operation.
C19_NoOperationRetried == ~seen.retried

(***************************************************************************)
(* The readers called one at a time, each on every answer it can receive:  *)
(* a run is one call.                                                      *)
(***************************************************************************)
VestingWallets ==
    {FOUNDATION_WALLETS[k].name : k \in {j \in DOMAIN FOUNDATION_WALLETS :
                                            FOUNDATION_WALLETS[j].type = "vesting"}}

InitReaders ==
    /\ script = "dashboard"
    /\ pc = "idle"
    /\ i = 0
    /\ results = ZeroResults
    /\ fetched = ZeroFetched
    /\ seen = NothingSeen
    /\ mm_amber = 0
    /\ mm_jpeg = 0
    /\ adj = [total_holdings_adj |-> 0, total_sellable_adj |-> 0]
    /\ call = [fn |-> "none"]
    /\ ret = [raised |-> FALSE]
    /\ VolumesIdle
    /\ SessionIdle

CallTokenBalance ==
    /\ call.fn = "none"
    /\ \E resp \in ValueResps :
          /\ call' = [fn |-> "get_token_balance", resp |-> resp]
          /\ ret' = get_token_balance(resp)
    /\ UNCHANGED <<holdingsVars, volVars, sessionVars>>

CallBscTokenBalance ==
    /\ call.fn = "none"
    /\ \E resp \in ValueResps :
          /\ call' = [fn |-> "get_bsc_token_balance", resp |-> resp]
          /\ ret' = get_bsc_token_balance(resp)
    /\ UNCHANGED <<holdingsVars, volVars, sessionVars>>

CallVestingInfo ==
    /\ call.fn = "none"
    /\ \E w \in VestingWallets, balResp \in ValueResps, clResp \in ValueResps :
          /\ call' = [fn |-> "get_vesting_info", contract |-> w,
                       balResp |-> balResp, clResp |-> clResp]
          /\ ret' = get_vesting_info(balResp, clResp)
    /\ UNCHANGED <<holdingsVars, volVars, sessionVars>>

CallStakedPositions ==
    /\ call.fn = "none"
    /\ \E resp \in ListResps :
          /\ call' = [fn |-> "report_dashboard.get_staked_positions", resp |-> resp]
          /\ ret' = dash_get_staked_positions(resp, Now)
    /\ UNCHANGED <<holdingsVars, volVars, sessionVars>>

CallStakedPositionsDataset ==
    /\ call.fn = "none"
    /\ \E c1 \in ListResps :
       \E c2 \in (IF c1.list # <<>> THEN {NoList} ELSE ListResps) :
          LET csvs == IF c1.list # <<>> THEN <<c1>> ELSE <<c1, c2>> IN
          /\ call' = [fn |-> "telegram_report.get_staked_positions", csvs |-> csvs]
          /\ ret' = tg_get_staked_positions(csvs, Now)
    /\ UNCHANGED <<holdingsVars, volVars, sessionVars>>

CallPositionRewards ==
    /\ call.fn = "none"
    /\ \E resp \in ValueResps :
          /\ call' = [fn |-> "get_position_rewards", resp |-> resp]
          /\ ret' = get_position_rewards(resp)
    /\ UNCHANGED <<holdingsVars, volVars, sessionVars>>

CallAllPositionRewards ==
    /\ call.fn = "none"
    /\ \E n \in 0..MaxPos :
       \E subs \in [1..n -> SubResults], nf \in 0..Len(RPC_URLS),
          fk \in {"fail", "malformed"} :
          LET batches == IF n = 0 THEN <<>> ELSE Batches(nf, fk, subs) IN
          /\ call' = [fn |-> "get_all_position_rewards", n |-> n, batches |-> batches]
          /\ ret' = [raised |-> FALSE, val |-> get_all_position_rewards(n, batches)]
    /\ UNCHANGED <<holdingsVars, volVars, sessionVars>>

NextReaders ==
    \/ CallTokenBalance
    \/ CallBscTokenBalance
    \/ CallVestingInfo
    \/ CallStakedPositions
    \/ CallStakedPositionsDataset
    \/ CallPositionRewards
    \/ CallAllPositionRewards

SpecReaders == InitReaders /\ [][NextReaders]_vars

\* C6: for every vesting wallet, whenever get_vesting_info returns, locked =
\* max(0, balance - claimable): never negative, 0 when claimable >= balance,
\* and the whole balance when the claimable read fails.
C6_LockedIsClampedDifference ==
    (call.fn = "get_vesting_info" /\ ~ret.raised) =>
        /\ ret.balance = Term(call.balResp)
        /\ ret.vested_unclaimed = Term(call.clResp)
        /\ ret.locked = Max(0, ret.balance - ret.vested_unclaimed)
        /\ ret.locked >= 0
        /\ (ret.vested_unclaimed >= ret.balance => ret.locked = 0)
        /\ (call.clResp.kind = "fail" => ret.locked = ret.balance)

\* the claimable read answers more than the balance read: locked is 0
C6_Witness ==
    /\ call.fn = "get_vesting_info"
    /\ call.balResp = Ok(1)
    /\ call.clResp = Ok(2)
    /\ ~ret.raised
    /\ ret.locked = 0

(***************************************************************************)
(* The exchange volume normalizer, _rolling_7day.                          *)
(* A date is a day number; an entry of daily_volumes is <<date, volume>>.  *)
(* A quotient of two numbers is kept exact, as [num, den].                 *)
(***************************************************************************)
MaxDays == 15        \* distinct past days an exchange's history holds
MaxVolume == 2       \* the volumes of one history total at most MaxVolume
Today == 20          \* datetime.now(timezone.utc).date()

Absent == [some |-> FALSE, num |-> 0, den |-> 1]
Quotient(a, b) == [some |-> TRUE, num |-> a, den |-> b]
NoSample == [none |-> TRUE]

Volumes(s) == SumSeq([k \in DOMAIN s |-> s[k][2]])

\* list.sort(key=lambda x: x[0]): stable, ascending by date
RECURSIVE InsertByDate(_, _)
InsertByDate(e, s) ==
    IF s = <<>> THEN <<e>>
    ELSE IF s[Len(s)][1] <= e[1] THEN Append(s, e)
    ELSE Append(InsertByDate(e, SubSeq(s, 1, Len(s) - 1)), s[Len(s)])

RECURSIVE sort(_)
sort(s) ==
    IF s = <<>> THEN <<>>
    ELSE InsertByDate(s[Len(s)], sort(SubSeq(s, 1, Len(s) - 1)))

\* filtered without the sort: the entries in input order
filtered_unsorted(daily_volumes, today) ==
    SelectSeq(daily_volumes, LAMBDA e : e[1] < today)

\* filtered keeping today's entry (d <= today)
filtered_with_today(daily_volumes, today) ==
    sort(SelectSeq(daily_volumes, LAMBDA e : e[1] <= today))

\* filtered = [(d, v) for d, v in daily_volumes if d < today]; filtered.sort(...)
filtered(daily_volumes, today) ==
    sort(SelectSeq(daily_volumes, LAMBDA e : e[1] < today))

\* wow that needs more than 14 entries
wow_pct_strict(f, cur_vol) ==
    IF Len(f) > 14
    THEN LET prev_vol == Volumes(SubSeq(f, Len(f) - 13, Len(f) - 7)) IN
         IF prev_vol > 0 THEN Quotient((cur_vol - prev_vol) * 100, prev_vol) ELSE Absent
    ELSE Absent

\* wow = None; if len(filtered) >= 14: prev = filtered[-14:-7]; ...
wow_pct(f, cur_vol) ==
    IF Len(f) >= 14
    THEN LET prev_vol == Volumes(SubSeq(f, Len(f) - 13, Len(f) - 7)) IN
         IF prev_vol > 0 THEN Quotient((cur_vol - prev_vol) * 100, prev_vol) ELSE Absent
    ELSE Absent

_rolling_7day(daily_volumes, exchange, today) ==
    IF Len(daily_volumes) < 7 THEN NoSample
    ELSE LET f == filtered(daily_volumes, today) IN
         IF Len(f) < 7 THEN NoSample
         ELSE LET current == SubSeq(f, Len(f) - 6, Len(f))
                  cur_vol == Volumes(current)
              IN [none |-> FALSE, exchange |-> exchange, volume_7d |-> cur_vol,
                  avg_daily |-> Quotient(cur_vol, 7),
                  wow_pct |-> wow_pct(f, cur_vol)]

(***************************************************************************)
(* The histories _rolling_7day is called on: n past days in ascending      *)
(* order, possibly with one more entry dated today or later, and with at   *)
(* most one irregularity: a missing day, a date that occurs twice, the     *)
(* newest-first order, or two neighbours exchanged.                        *)
(***************************************************************************)
\* n past dates, ascending, ending yesterday; the g oldest lie one day further back
PastDates(n, g) ==
    [k \in 1..n |-> Today - (n - k + 1) - (IF k <= g THEN 1 ELSE 0)]

InsertAt(s, k, e) == SubSeq(s, 1, k) \o <<e>> \o SubSeq(s, k + 1, Len(s))

Reverse(s) == [k \in 1..Len(s) |-> s[Len(s) - k + 1]]

Exchange(s, k) ==
    [j \in 1..Len(s) |-> IF j = k THEN s[k + 1] ELSE IF j = k + 1 THEN s[k] ELSE s[j]]

DateLists ==
    UNION {
        LET plain == PastDates(n, 0) IN
        {plain, Reverse(plain)}
        \cup {PastDates(n, g) : g \in 1..(n - 1)}
        \cup {InsertAt(plain, k, plain[k]) : k \in 1..n}
        \cup {Exchange(plain, k) : k \in 1..(n - 1)}
        \cup {Append(plain, d) : d \in {Today, Today + 1}}
        \cup {Reverse(Append(plain, Today))}
        \cup {Append(InsertAt(plain, k, plain[k]), Today) : k \in 1..n}
      : n \in 0..MaxDays}

\* the ways to spread at most MaxVolume units of volume over m entries
VolumeLists(m) ==
    {[k \in 1..m |-> Cardinality({j \in 1..MaxVolume : u[j] = k})] :
        u \in {w \in [1..MaxVolume -> 0..m] :
                  \A j \in 1..(MaxVolume - 1) : w[j] <= w[j + 1]}}

History(ds, vs) == [k \in DOMAIN ds |-> <<ds[k], vs[k]>>]

InitRolling ==
    /\ script = "dashboard"
    /\ pc = "idle"
    /\ i = 0
    /\ results = ZeroResults
    /\ fetched = ZeroFetched
    /\ seen = NothingSeen
    /\ mm_amber = 0
    /\ mm_jpeg = 0
    /\ adj = [total_holdings_adj |-> 0, total_sellable_adj |-> 0]
    /\ \E ds \in DateLists : \E vs \in VolumeLists(Len(ds)) :
          call = [fn |-> "_rolling_7day", daily_volumes |-> History(ds, vs),
                  exchange |-> "Binance"]
    /\ ret = [pending |-> TRUE]
    /\ VolumesIdle
    /\ SessionIdle

Rolling7Day ==
    /\ call.fn = "_rolling_7day"
    /\ ret = [pending |-> TRUE]
    /\ ret' = _rolling_7day(call.daily_volumes, call.exchange, Today)
    /\ UNCHANGED <<call, holdingsVars, volVars, sessionVars>>

NextRolling == Rolling7Day

SpecRolling == InitRolling /\ [][NextRolling]_vars

(***************************************************************************)
(* Claims about _rolling_7day.  A qualifying day is a calendar date before *)
(* today that the history has an entry for; when a date occurs more than   *)
(* once its value is that of its latest entry.                             *)
(***************************************************************************)
RollingDone == call.fn = "_rolling_7day" /\ ret # [pending |-> TRUE]

\* the entries dated before today
Entries(h) == {k \in DOMAIN h : h[k][1] < Today}

\* the qualifying days: of each date before today, the latest entry
Qualifying(h) ==
    {k \in Entries(h) : \A j \in Entries(h) : h[j][1] = h[k][1] => j <= k}

NoRepeatedDate(h) == Qualifying(h) = Entries(h)

SumOver(h, S) == SumSeq([k \in DOMAIN h |-> IF k \in S THEN h[k][2] ELSE 0])

\* the r most recent qualifying days of h
Recent(h, r) ==
    {k \in Qualifying(h) :
        Cardinality({j \in Qualifying(h) : h[j][1] > h[k][1]}) < r}

\* h with only the latest entry of each date, in the order of h
Deduplicated(h) ==
    LET keep == {k \in DOMAIN h : \A j \in DOMAIN h : h[j][1] = h[k][1] => j <= k}
    IN [n \in 1..Cardinality(keep) |->
           h[CHOOSE k \in keep : Cardinality({j \in keep : j <= k}) = n]]

\* C8: _rolling_7day returns None whenever fewer than 7 qualifying days remain
\* once the entries dated today or later are left out, and returns a sample
\* whenever at least 7 remain.
C8_NoneIffFewerThanSeven ==
    RollingDone =>
        (ret.none <=> Cardinality(Qualifying(call.daily_volumes)) < 7)

\* C9: whatever the order of the input, volume_7d is the sum of the volumes of
\* the 7 most recent qualifying days, today's entry left out, and avg_daily is
\* volume_7d / 7.
C9_VolumeOfSevenMostRecent ==
    (RollingDone /\ ~ret.none /\ Cardinality(Qualifying(call.daily_volumes)) >= 7) =>
        /\ ret.volume_7d = SumOver(call.daily_volumes, Recent(call.daily_volumes, 7))
        /\ ret.avg_daily = Quotient(ret.volume_7d, 7)

\* C10: wow_pct is (current - previous) / previous * 100 exactly when at least
\* 14 qualifying days exist and the previous 7-day sum is above 0; it is absent
\* with 7 to 13 qualifying days and when the previous sum is exactly 0.
C10_WowPct ==
    (RollingDone /\ ~ret.none /\ Cardinality(Qualifying(call.daily_volumes)) >= 7) =>
        IF Cardinality(Qualifying(call.daily_volumes)) >= 14
        THEN LET previous == SumOver(call.daily_volumes,
                                 Recent(call.daily_volumes, 14)
                                     \ Recent(call.daily_volumes, 7))
             IN ret.wow_pct = IF previous > 0
                              THEN Quotient((ret.volume_7d - previous) * 100, previous)
                              ELSE Absent
        ELSE ret.wow_pct = Absent

\* the entries of h dated from today - back to today - upto
Dated(h, back, upto) ==
    {k \in Entries(h) : Today - back <= h[k][1] /\ h[k][1] <= Today - upto}

\* C26: volume_7d covers only the 7 calendar days before today: in a history
\* with missing dates no day older than today - 7 contributes to volume_7d,
\* and none older than today - 14 to the previous-week sum of wow_pct.  (Stated
\* for histories without a repeated date.)
C26_CalendarWindow ==
    (RollingDone /\ ~ret.none /\ NoRepeatedDate(call.daily_volumes)) =>
        LET week == SumOver(call.daily_volumes, Dated(call.daily_volumes, 7, 1))
            previous == SumOver(call.daily_volumes, Dated(call.daily_volumes, 14, 8))
        IN /\ ret.volume_7d = week
           /\ ret.wow_pct.some =>
                 ret.wow_pct = Quotient((week - previous) * 100, previous)

\* exactly 14 qualifying days, the totals of the two weeks equal
EqualWeeks ==
    /\ RollingDone
    /\ Cardinality(Qualifying(call.daily_volumes)) = 14
    /\ SumOver(call.daily_volumes, Recent(call.daily_volumes, 7))
          = SumOver(call.daily_volumes,
                Qualifying(call.daily_volumes) \ Recent(call.daily_volumes, 7))

\* C11: with exactly 14 qualifying days and equal totals of the two weeks,
\* _rolling_7day returns wow_pct = 0.
C11_EqualWeeksGiveZero ==
    EqualWeeks => (~ret.none /\ ret.wow_pct.some /\ ret.wow_pct.num = 0)

\* C12: entries of one date are deduplicated, the latest kept: the result on a
\* history is the result on that history with one entry per date, so a date
\* counts once toward the 7 and 14 day thresholds and gives one value to
\* volume_7d and to the previous week's sum.
C12_DuplicatesCountOnce ==
    RollingDone =>
        ret = _rolling_7day(Deduplicated(call.daily_volumes), call.exchange, Today)

\* On a history in which no date before today occurs twice, what C8, C9, C10
\* and C12 say holds, and equal weeks give wow_pct = 0 when their total is
\* above 0 (absent when it is 0).
WithoutRepeatedDates ==
    (RollingDone /\ NoRepeatedDate(call.daily_volumes)) =>
        /\ C8_NoneIffFewerThanSeven
        /\ C9_VolumeOfSevenMostRecent
        /\ C10_WowPct
        /\ C12_DuplicatesCountOnce
        /\ EqualWeeks =>
              IF ret.volume_7d > 0
              THEN ret.wow_pct.some /\ ret.wow_pct.num = 0
              ELSE ret.wow_pct = Absent

\* 14 days with equal positive week totals and one more entry repeating a
\* date: the result is not wow_pct = 0
RepeatedDateBreaksEqualWeeks ==
    /\ EqualWeeks
    /\ SumOver(call.daily_volumes, Recent(call.daily_volumes, 7)) > 0
    /\ ~NoRepeatedDate(call.daily_volumes)
    /\ ~(ret.wow_pct.some /\ ret.wow_pct.num = 0)

(***************************************************************************)
(* The exchange adapters and the two volume loaders.  A candle request is  *)
(* answered "fail" (safe_get gives None), "noshape" (200, but without the  *)
(* key the adapter looks for), "malformed" (200, with a row the adapter's  *)
(* float()/int() cannot convert) or "ok" with the rows the adapter parses. *)
(***************************************************************************)
MaxSamples == 2      \* a loader's list holds at most MaxSamples samples

\* the fetchers lists, by exchange name, in order
spot_fetchers ==
    <<"Binance", "Bybit", "OKX", "Bitget", "Gate.io", "Kraken", "BitMart",
      "Phemex", "KuCoin", "BingX", "MEXC", "Upbit", "Bithumb", "CoinTR">>

\* oi_read: the adapter reads the open interest from a second request
perp_fetchers ==
    <<[exchange |-> "Binance", oi_read |-> TRUE],
      [exchange |-> "Bybit",   oi_read |-> TRUE],
      [exchange |-> "Gate.io", oi_read |-> TRUE],
      [exchange |-> "OKX",     oi_read |-> TRUE],
      [exchange |-> "Bitget",  oi_read |-> TRUE],
      [exchange |-> "BingX",   oi_read |-> TRUE],
      [exchange |-> "MEXC",    oi_read |-> TRUE],
      [exchange |-> "Phemex",  oi_read |-> FALSE],
      [exchange |-> "KuCoin",  oi_read |-> TRUE],
      [exchange |-> "BitMart", oi_read |-> FALSE],
      [exchange |-> "LBank",   oi_read |-> TRUE]>>

\* the rows of a well-formed candle answer: 6 days up to yesterday, or 7 days
\* with volume 1 or 2 each
KlineRows ==
    {History(PastDates(6, 0), [k \in 1..6 |-> 1])}
    \cup {History(PastDates(7, 0), [k \in 1..7 |-> v]) : v \in {1, 2}}

KlineResps ==
    {[kind |-> k, rows |-> <<>>] : k \in {"fail", "noshape", "malformed"}}
    \cup {[kind |-> "ok", rows |-> h] : h \in KlineRows}

\* the answers to an open-interest request
OiResps == {Fail, Malformed, [kind |-> "noshape", val |-> 0], Ok(1)}

NoOi == [kind |-> "unused", val |-> 0]

\* what an adapter did: raised, or returned val (a sample or NoSample)
Returned(v) == [raised |-> FALSE, val |-> v]
AdapterRaised == [raised |-> TRUE, val |-> NoSample]

\* get_spot_volume_<exchange>: the candles, parsed into rows, normalized
get_spot_volume(exchange, resp) ==
    LET data == safe_get(resp) IN
    IF data.kind = "none" THEN Returned(NoSample)
    ELSE IF data.kind = "noshape" THEN Returned(NoSample)
    ELSE IF data.kind = "malformed" THEN AdapterRaised
    ELSE Returned(_rolling_7day(data.rows, exchange, Today))

\* the adapters whose candles are quoted in KRW
KrwQuoted == {"Upbit", "Bithumb"}

KRW_FALLBACK == 1450     \* return 1.0 / 1450

\* the candle answers of a KRW-quoted exchange: the same days, each volume
\* in KRW
KrwKlineResps ==
    {[r EXCEPT !.rows = [k \in DOMAIN @ |-> <<@[k][1], @[k][2] * KRW_FALLBACK>>]] :
        r \in KlineResps}

\* the answers to the USD/KRW request: none, no rates.KRW in it, or KRW per USD
RateResps == {Fail, [kind |-> "noshape", val |-> 0], Ok(0), Ok(725)}

NoRate == [kind |-> "unused", val |-> 0]

\* a rate reader without the fallback: no rate, no adapter result
_get_krw_to_usd_no_fallback(resp) ==
    LET data == safe_get(resp) IN
    IF data.kind = "ok"
    THEN IF data.val = 0 THEN [raised |-> TRUE, val |-> Absent]
         ELSE Ret(Quotient(1, data.val))
    ELSE [raised |-> TRUE, val |-> Absent]

\* _get_krw_to_usd: 1.0 / data["rates"]["KRW"] (a division by 0 raises), or
\* 1.0 / 1450 when the answer is None or lacks the key
_get_krw_to_usd(resp) ==
    LET data == safe_get(resp) IN
    IF data.kind = "ok"
    THEN IF data.val = 0 THEN [raised |-> TRUE, val |-> Absent]
         ELSE Ret(Quotient(1, data.val))
    ELSE Ret(Quotient(1, KRW_FALLBACK))

\* qv = float(k[...]) * krw_rate, for every row
times_krw_rate(rows, krw_rate) ==
    [k \in DOMAIN rows |-> <<rows[k][1], (rows[k][2] * krw_rate.num) \div krw_rate.den>>]

\* get_spot_volume_upbit / _bithumb: the candles, then the rate (read only
\* once the candle answer has its shape), then every row converted, then
\* normalized
get_spot_volume_krw(exchange, resp, rateResp) ==
    LET data == safe_get(resp) IN
    IF data.kind = "none" THEN Returned(NoSample)
    ELSE IF data.kind = "noshape" THEN Returned(NoSample)
    ELSE LET krw_rate == _get_krw_to_usd(rateResp) IN
         IF krw_rate.raised THEN AdapterRaised
         ELSE IF data.kind = "malformed" THEN AdapterRaised
         ELSE Returned(_rolling_7day(times_krw_rate(data.rows, krw_rate.val),
                                     exchange, Today))

\* result["open_interest"] = oi
WithOpenInterest(result, oi) ==
    [none |-> FALSE, exchange |-> result.exchange, volume_7d |-> result.volume_7d,
     avg_daily |-> result.avg_daily, wow_pct |-> result.wow_pct, open_interest |-> oi]

\* get_perp_volume_<exchange>: both requests first, then oi = float(...) with
\* no try around it, then the candles as in the spot adapters
get_perp_volume(f, resp, oiResp) ==
    LET data == safe_get(resp)
        oi_data == safe_get(oiResp)
    IN
    IF f.oi_read /\ oi_data.kind = "malformed" THEN AdapterRaised
    ELSE LET oi == IF f.oi_read /\ oi_data.kind = "ok" THEN oi_data.val ELSE 0 IN
         IF data.kind = "none" THEN Returned(NoSample)
         ELSE IF data.kind = "noshape" THEN Returned(NoSample)
         ELSE IF data.kind = "malformed" THEN AdapterRaised
         ELSE LET result == _rolling_7day(data.rows, f.exchange, Today) IN
              IF result.none THEN Returned(NoSample)
              ELSE Returned(WithOpenInterest(result, oi))

\* one turn of the loop without the try: a fetcher that raises ends the loader
load_step_no_try(v, r) ==
    IF r.raised THEN [v EXCEPT !.loader = "raised"]
    ELSE [v EXCEPT !.i = @ + 1,
                   !.results = IF r.val.none THEN @ ELSE Append(@, r.val)]

\* for fn in fetchers: try: r = fn(); if r: results.append(r); except: pass
load_step(v, r) ==
    [v EXCEPT !.i = @ + 1,
              !.results = IF r.raised \/ r.val.none THEN @ ELSE Append(@, r.val)]

\* history: what the fetcher that just ran did.  lost: its candles alone make
\* a sample and it gave none.  oi_kept: every sample of a perpetual adapter
\* so far is the normalizer's result on its candles plus the open interest
\* its second request carried, 0 when that request gave none.
Tallied(r, resp, oiResp) ==
    LET gave == ~r.raised /\ ~r.val.none IN
    [ran |-> tally.ran + 1,
     succeeded |-> tally.succeeded + (IF gave THEN 1 ELSE 0),
     failed |-> tally.failed \cup (IF r.raised THEN {"raised"}
                                    ELSE IF r.val.none THEN {"none"} ELSE {}),
     avg_num |-> tally.avg_num + (IF gave THEN r.val.avg_daily.num ELSE 0),
     lost |-> tally.lost \/ (resp.kind = "ok" /\ Len(resp.rows) >= 7 /\ ~gave),
     oi_kept |-> tally.oi_kept /\
                 ((gave /\ vols.loader = "perp") =>
                     r.val = WithOpenInterest(
                                 _rolling_7day(resp.rows, r.val.exchange, Today),
                                 IF oiResp.kind = "ok" THEN oiResp.val ELSE 0)),
     krw |-> tally.krw]

InitVolumes ==
    /\ script = "dashboard"
    /\ pc = "idle"
    /\ i = 0
    /\ results = ZeroResults
    /\ fetched = ZeroFetched
    /\ seen = NothingSeen
    /\ mm_amber = 0
    /\ mm_jpeg = 0
    /\ adj = [total_holdings_adj |-> 0, total_sellable_adj |-> 0]
    /\ call = [fn |-> "none"]
    /\ ret = [raised |-> FALSE]
    /\ \E l \in {"spot", "perp"} : vols = [loader |-> l, i |-> 1, results |-> <<>>]
    /\ tally = [ran |-> 0, succeeded |-> 0, failed |-> {}, avg_num |-> 0, lost |-> FALSE,
                oi_kept |-> TRUE, krw |-> NoKrw]
    /\ SessionIdle

\* load_spot_volumes: one fetcher of the list
LoadSpotVolume ==
    /\ vols.loader = "spot"
    /\ vols.i \in DOMAIN spot_fetchers
    /\ spot_fetchers[vols.i] \notin KrwQuoted
    /\ \E resp \in KlineResps :
          LET r == get_spot_volume(spot_fetchers[vols.i], resp) IN
          /\ vols' = load_step(vols, r)
          /\ Len(vols'.results) <= MaxSamples
          /\ tally' = Tallied(r, resp, NoOi)
    /\ UNCHANGED <<holdingsVars, call, ret, sessionVars>>

\* load_spot_volumes: one fetcher of the list, a KRW-quoted one
LoadSpotVolumeKrw ==
    /\ vols.loader = "spot"
    /\ vols.i \in DOMAIN spot_fetchers
    /\ spot_fetchers[vols.i] \in KrwQuoted
    /\ \E resp \in KrwKlineResps :
       \E rateResp \in (IF resp.kind \in {"ok", "malformed"} THEN RateResps ELSE {NoRate}) :
          LET r == get_spot_volume_krw(spot_fetchers[vols.i], resp, rateResp) IN
          /\ vols' = load_step(vols, r)
          /\ Len(vols'.results) <= MaxSamples
          /\ tally' = [Tallied(r, resp, NoOi) EXCEPT
                           !.krw = [ran |-> TRUE, exchange |-> spot_fetchers[vols.i],
                                    resp |-> resp, rate |-> rateResp, result |-> r]]
    /\ UNCHANGED <<holdingsVars, call, ret, sessionVars>>

\* load_perp_volumes: one fetcher of the list
LoadPerpVolume ==
    /\ vols.loader = "perp"
    /\ vols.i \in DOMAIN perp_fetchers
    /\ \E resp \in KlineResps :
       \E oiResp \in (IF perp_fetchers[vols.i].oi_read THEN OiResps ELSE {NoOi}) :
          LET r == get_perp_volume(perp_fetchers[vols.i], resp, oiResp) IN
          /\ vols' = load_step(vols, r)
          /\ Len(vols'.results) <= MaxSamples
          /\ tally' = Tallied(r, resp, oiResp)
    /\ UNCHANGED <<holdingsVars, call, ret, sessionVars>>

\* total_spot_daily / total_perp_daily: sum(v["avg_daily"] for v in vols)
total_daily(vs) == Quotient(SumSeq([k \in DOMAIN vs |-> vs[k].avg_daily.num]), 7)

\* sort_values("volume_7d", ascending=False); equal volumes keep their order
RECURSIVE by_volume_7d(_)
by_volume_7d(vs) ==
    IF vs = <<>> THEN <<>>
    ELSE LET rest == by_volume_7d(Tail(vs))
             before == {k \in DOMAIN rest : rest[k].volume_7d > Head(vs).volume_7d}
             n == Cardinality(before)
         IN SubSeq(rest, 1, n) \o <<Head(vs)>> \o SubSeq(rest, n + 1, Len(rest))

\* a tab that renders the table whatever the list holds
volumes_tab_table_only(vs) == [warning |-> FALSE, table |-> TRUE, rows |-> by_volume_7d(vs)]

\* if not spot_vols: st.warning(...) else: the table of the samples
volumes_tab(vs) ==
    IF vs = <<>> THEN [warning |-> TRUE, table |-> FALSE, rows |-> <<>>]
    ELSE [warning |-> FALSE, table |-> TRUE, rows |-> by_volume_7d(vs)]

\* the Spot Volumes / Perp Volumes tab, once its loader has returned
RenderVolumesTab ==
    /\ vols.loader \in {"spot", "perp"}
    /\ vols.i = Len(IF vols.loader = "spot" THEN spot_fetchers ELSE perp_fetchers) + 1
    /\ pc = "idle"
    /\ pc' = "tab"
    /\ ret' = volumes_tab(vols.results)
    /\ UNCHANGED <<script, i, results, fetched, seen, mm_amber, mm_jpeg, adj, call,
                   volVars, sessionVars>>

NextVolumes == LoadSpotVolume \/ LoadSpotVolumeKrw \/ LoadPerpVolume \/ RenderVolumesTab

SpecVolumes == InitVolumes /\ [][NextVolumes]_vars

Fetchers == IF vols.loader = "spot" THEN spot_fetchers ELSE perp_fetchers

\* the loader has gone through its list and returns
VolumesReturned ==
    vols.loader \in {"spot", "perp"} /\ vols.i = Len(Fetchers) + 1

\* C13: a fetcher that returns None or raises adds no entry and never keeps
\* the fetchers after it from running: the loader returns one entry per
\* fetcher that succeeded, and the displayed total is the sum of their
\* avg_daily.
C13_FailedAdapterOnlyDropsItsEntry ==
    /\ vols.loader # "raised"
    /\ vols.loader \in {"spot", "perp"} =>
          /\ tally.ran = vols.i - 1
          /\ Len(vols.results) = tally.succeeded
          /\ total_daily(vols.results) = Quotient(tally.avg_num, 7)
    /\ VolumesReturned => tally.ran = Len(Fetchers)

\* a returned list of exactly 2 entries after fetchers that returned None and
\* fetchers that raised, with a total above 0
C13_Witness ==
    /\ VolumesReturned
    /\ Len(vols.results) = 2
    /\ tally.failed = {"none", "raised"}
    /\ tally.ran - tally.succeeded >= 3
    /\ total_daily(vols.results).num > 0

\* the rows in USD at krw KRW per USD
InUsd(rows, krw) == [k \in DOMAIN rows |-> <<rows[k][1], rows[k][2] \div krw>>]

\* C28: a KRW-quoted adapter whose candle answer is well formed returns the
\* normalizer's result on its rows converted to USD, each volume divided by
\* the fetched KRW per USD rate, or by 1450 when the rate request gave no
\* answer or an answer without the rate; so 7 days of candles and a failed
\* rate request give a sample.
C28_KrwConvertedWithFallback ==
    tally.krw.ran =>
        LET k == tally.krw
            fetched_rate == k.rate.kind = "ok" /\ k.rate.val > 0
            krw == IF fetched_rate THEN k.rate.val ELSE KRW_FALLBACK
        IN (k.resp.kind = "ok" /\ (fetched_rate \/ k.rate.kind \in {"fail", "noshape"})) =>
              /\ k.result = Returned(_rolling_7day(InUsd(k.resp.rows, krw), k.exchange, Today))
              /\ (~fetched_rate /\ Len(k.resp.rows) >= 7) => ~k.result.val.none

\* the rate request failed, and the adapter's sample is the 7 days' KRW
\* volumes at 1450 KRW per USD
C28_Witness ==
    /\ tally.krw.ran
    /\ tally.krw.rate = Fail
    /\ tally.krw.resp.kind = "ok"
    /\ ~tally.krw.result.raised
    /\ ~tally.krw.result.val.none
    /\ tally.krw.result.val.volume_7d = 14
    /\ Volumes(tally.krw.resp.rows) = 14 * KRW_FALLBACK

\* a fetched rate of 725 KRW per USD: the same candles give twice the volume
C28_FetchedRateWitness ==
    /\ tally.krw.ran
    /\ tally.krw.rate = Ok(725)
    /\ ~tally.krw.result.val.none
    /\ tally.krw.result.val.volume_7d = 28

\* C21: when every adapter of a volume list yields absence, so that the list
\* is empty, the tab shows a warning and no table; when at least one sample is
\* present it shows no warning and the table of all the samples.
C21_WarningIffNoSample ==
    (vols.loader \in {"spot", "perp"} /\ pc = "tab") =>
        /\ ret.warning <=> tally.succeeded = 0
        /\ ret.table <=> tally.succeeded > 0
        /\ Len(ret.rows) = tally.succeeded
        /\ \A k \in DOMAIN vols.results : \E j \in DOMAIN ret.rows : ret.rows[j] = vols.results[k]

\* every fetcher of a list ran, some returned None and some raised, and the
\* tab shows the warning
C21_Witness ==
    /\ pc = "tab"
    /\ tally.ran = Len(Fetchers)
    /\ tally.failed = {"none", "raised"}
    /\ tally.succeeded = 0
    /\ ret.warning
    /\ ~ret.table

\* one failure and two samples: the table, the larger volume first
C21_TableShown ==
    /\ pc = "tab"
    /\ tally.failed # {}
    /\ ~ret.warning
    /\ Len(ret.rows) = 2
    /\ ret.rows[1].volume_7d > ret.rows[2].volume_7d
    /\ vols.results[1] = ret.rows[2]

\* C14: every sample of a perpetual adapter carries an open_interest, 0 when
\* the open-interest read is unavailable (failed or malformed); that read
\* never changes volume_7d, avg_daily or wow_pct and never turns candles that
\* make a sample into no sample.
C14_OpenInterestIsASideObservation ==
    vols.loader = "perp" => (tally.oi_kept /\ ~tally.lost)

(***************************************************************************)
(* calculate_vesting_projection.  Time is in ticks, a day is DayTicks of   *)
(* them; a target date is a day number and stands for its midnight UTC.    *)
(* The sum of the contributions is kept exact, as [num, den].              *)
(***************************************************************************)
MaxDate == 2         \* target dates 0..MaxDate, timestamps up to that day
MaxAlloc == 1        \* a schedule's total: 1..MaxAlloc
DayTicks == 2        \* the timestamp of a date: date * DayTicks

Times == 0..(MaxDate * DayTicks)

\* VESTING_SCHEDULES: lists of start < end and a total
Schedules == {v \in [start : Times, end : Times, total : 1..MaxAlloc] : v.start < v.end}

Min(a, b) == IF a <= b THEN a ELSE b

\* int(datetime.strptime(target_date_str, "%Y-%m-%d").replace(tzinfo=utc).timestamp())
timestamp(date) == date * DayTicks

AddQuotient(a, b) == Quotient(a.num * b.den + b.num * a.den, a.den * b.den)

\* round(total): the nearest integer, the even one of two equally near
round(q) ==
    LET whole == q.num \div q.den
        rest == q.num % q.den
    IN IF 2 * rest > q.den THEN whole + 1
       ELSE IF 2 * rest < q.den THEN whole
       ELSE IF whole % 2 = 0 THEN whole ELSE whole + 1

\* a schedule counted only while the target lies before its end
contribution_unended(v, target_ts, now_ts) ==
    IF target_ts > now_ts /\ target_ts <= v.end
    THEN Quotient(v.total * (target_ts - now_ts), v.end - v.start)
    ELSE Quotient(0, 1)

\* rate = total / (end - start); effective_end = min(target_ts, end);
\* if effective_end > now_ts: total += rate * (effective_end - now_ts)
contribution(v, target_ts, now_ts) ==
    LET effective_end == Min(target_ts, v.end) IN
    IF effective_end > now_ts
    THEN Quotient(v.total * (effective_end - now_ts), v.end - v.start)
    ELSE Quotient(0, 1)

\* the loop over VESTING_SCHEDULES
RECURSIVE projection_total(_, _, _)
projection_total(schedules, target_ts, now_ts) ==
    IF schedules = <<>> THEN Quotient(0, 1)
    ELSE AddQuotient(projection_total(Tail(schedules), target_ts, now_ts),
                     contribution(Head(schedules), target_ts, now_ts))

\* the projection with every contribution rounded before it is added
RECURSIVE calculate_vesting_projection_round_each(_, _, _)
calculate_vesting_projection_round_each(target_date, now_ts, schedules) ==
    IF schedules = <<>> THEN 0
    ELSE round(contribution(Head(schedules), timestamp(target_date), now_ts))
         + calculate_vesting_projection_round_each(target_date, now_ts, Tail(schedules))

\* calculate_vesting_projection(target_date_str), with the clock reading and
\* VESTING_SCHEDULES it works on
calculate_vesting_projection(target_date, now_ts, schedules) ==
    round(projection_total(schedules, timestamp(target_date), now_ts))

InitProjection ==
    /\ script = "dashboard"
    /\ pc = "idle"
    /\ i = 0
    /\ results = ZeroResults
    /\ fetched = ZeroFetched
    /\ seen = NothingSeen
    /\ mm_amber = 0
    /\ mm_jpeg = 0
    /\ adj = [total_holdings_adj |-> 0, total_sellable_adj |-> 0]
    /\ VolumesIdle
    /\ SessionIdle
    /\ \E now_ts \in Times, t1 \in 0..MaxDate, t2 \in 0..MaxDate :
       \E schedules \in {<<>>} \cup {<<a>> : a \in Schedules}
                          \cup {<<a, b>> : a \in Schedules, b \in Schedules} :
          /\ t1 <= t2
          /\ call = [fn |-> "calculate_vesting_projection", now_ts |-> now_ts,
                     schedules |-> schedules, targets |-> <<t1, t2>>]
    /\ ret = [pending |-> TRUE]

\* the projection for each of the two target dates, at the same clock reading
Project ==
    /\ call.fn = "calculate_vesting_projection"
    /\ ret = [pending |-> TRUE]
    /\ ret' = [k \in 1..2 |->
                 calculate_vesting_projection(call.targets[k], call.now_ts, call.schedules)]
    /\ UNCHANGED <<call, holdingsVars, volVars, sessionVars>>

NextProjection == Project

SpecProjection == InitProjection /\ [][NextProjection]_vars

ProjectionDone == call.fn = "calculate_vesting_projection" /\ ret # [pending |-> TRUE]

\* the schedules of s that still vest between now and the target, by index
Vesting(s, target_ts, now_ts) ==
    {k \in DOMAIN s : Min(target_ts, s[k].end) > now_ts}

RECURSIVE Product(_)
Product(q) == IF q = <<>> THEN 1 ELSE Head(q) * Product(Tail(q))

Durations(s) == [k \in DOMAIN s |-> s[k].end - s[k].start]

\* the sum of rate * (min(target, end) - now) over the schedules that still
\* vest, times the product of all durations (which makes it a whole number)
ScaledSum(s, target_ts, now_ts) ==
    SumSeq([k \in DOMAIN s |->
              IF k \in Vesting(s, target_ts, now_ts)
              THEN s[k].total * (Min(target_ts, s[k].end) - now_ts)
                       * Product([j \in DOMAIN s |->
                                    IF j = k THEN 1 ELSE s[j].end - s[j].start])
              ELSE 0])

\* C15: the projection is the sum over the schedules of rate * (min(target,
\* end) - now) where min(target, end) > now and 0 otherwise, with rate = total
\* / (end - start), rounded to an integer once, on the total: it is an integer
\* nearest to the exact sum.
C15_ProjectionIsRoundedSum ==
    ProjectionDone =>
        \A k \in 1..2 :
            LET d == Product(Durations(call.schedules))
                n == ScaledSum(call.schedules, call.targets[k] * DayTicks, call.now_ts)
                diff == ret[k] * d - n
            IN 2 * (IF diff >= 0 THEN diff ELSE 0 - diff) <= d

\* two schedules that each add one half, one of them cut by the target, and
\* the projection is 1
C15_Witness ==
    /\ ProjectionDone
    /\ Len(call.schedules) = 2
    /\ \A k \in 1..2 :
          contribution(call.schedules[k], call.targets[1] * DayTicks, call.now_ts)
              = Quotient(1, 2)
    /\ call.targets[1] * DayTicks < call.schedules[1].end
    /\ ret[1] = 1

\* a schedule that ended before now, beside one that still vests
C15_PastScheduleWitness ==
    /\ ProjectionDone
    /\ Len(call.schedules) = 2
    /\ call.schedules[1].end < call.now_ts
    /\ ret[1] = 1

\* C16: with now and the schedules fixed, the projection is monotonic in the
\* target date: t1 <= t2 gives projection(t1) <= projection(t2).
C16_MonotonicInTarget ==
    (ProjectionDone /\ call.targets[1] <= call.targets[2]) => ret[1] <= ret[2]

\* a later target with a strictly larger projection, the earlier target
\* already past the end of one schedule
C16_Witness ==
    /\ ProjectionDone
    /\ call.targets[1] < call.targets[2]
    /\ \E k \in DOMAIN call.schedules :
          call.schedules[k].end < call.targets[1] * DayTicks
    /\ 0 < ret[1]
    /\ ret[1] < ret[2]

\* sum(v["total"] for v in VESTING_SCHEDULES)
Allocations(s) == SumSeq([k \in DOMAIN s |-> s[k].total])

\* q lies between 0 and n
BetweenZeroAnd(q, n) == 0 <= q.num /\ q.num <= n * q.den

\* C29: for every clock reading and target, the contribution of each
\* schedule lies between 0 and the schedule's total, also when the clock
\* reads less than the schedule's start, and the projection lies between 0
\* and the sum of the totals.
C29_ContributionWithinAllocation ==
    ProjectionDone =>
        \A k \in 1..2 :
            /\ \A j \in DOMAIN call.schedules :
                  BetweenZeroAnd(contribution(call.schedules[j], timestamp(call.targets[k]),
                                      call.now_ts),
                         call.schedules[j].total)
            /\ 0 <= ret[k]
            /\ ret[k] <= Allocations(call.schedules)

\* no schedule starts after the clock reading
AllStarted == \A j \in DOMAIN call.schedules : call.schedules[j].start <= call.now_ts

\* what C29 says holds when every schedule has started
WithinAllocationOnceStarted == AllStarted => C29_ContributionWithinAllocation

\* one schedule still to start, a target past its end: the projection is
\* above the schedule's total
ProjectionAboveAllocation ==
    /\ ProjectionDone
    /\ Len(call.schedules) = 1
    /\ call.now_ts < call.schedules[1].start
    /\ ret[2] > call.schedules[1].total

(***************************************************************************)
(* One process of each script from its start.  The digest runs once; the   *)
(* dashboard script runs again on every interaction, over st.cache_data,   *)
(* while time passes between its runs.                                     *)
(***************************************************************************)
MaxTicks == 3        \* the clock stops after MaxTicks steps
ttl == 600           \* @st.cache_data(ttl=600)
Tick == ttl \div 2   \* time passes in steps of half a cache window

Keys == {"", "k1", "k2"}     \* what the sidebar's Etherscan key box holds
Snapshots == {"a", "b"}      \* what a loader computes from the answers of the moment

\* os.getenv(name, "") of the three credentials of the digest
Environments ==
    [ETHERSCAN_API_KEY : {"", "set"}, TELEGRAM_BOT_TOKEN : {"", "set"},
     TELEGRAM_CHAT_ID : {"", "set"}]

NoEntry == [some |-> FALSE, value |-> "", at |-> 0]
Entry(v, t) == [some |-> TRUE, value |-> v, at |-> t]

\* the cached functions with the arguments they are called with
CachedCalls ==
    {[fn |-> "load_holdings", arg |-> k] : k \in Keys \ {""}}
        \cup {[fn |-> "load_spot_volumes", arg |-> ""],
              [fn |-> "load_perp_volumes", arg |-> ""]}

\* st.cache_data.clear()
Cleared == [f \in CachedCalls |-> NoEntry]

\* only the Etherscan key is required
credentials_missing_etherscan_only(env) == env.ETHERSCAN_API_KEY = ""

\* if not ETHERSCAN_API_KEY / TELEGRAM_BOT_TOKEN / TELEGRAM_CHAT_ID: sys.exit
credentials_missing(env) ==
    \/ env.ETHERSCAN_API_KEY = ""
    \/ env.TELEGRAM_BOT_TOKEN = ""
    \/ env.TELEGRAM_CHAT_ID = ""

\* a stored result of the function, whatever argument it was computed for
cached_any_argument(c, f, now) ==
    LET stored == {g \in CachedCalls : g.fn = f.fn /\ c[g].some /\ now - c[g].at < ttl}
    IN IF stored = {} THEN NoEntry ELSE c[CHOOSE g \in stored : TRUE]

\* the stored result of this function for this argument, younger than ttl
cached(c, f, now) ==
    IF c[f].some /\ now - c[f].at < ttl THEN c[f] ELSE NoEntry

\* entries older than ttl are dropped
expire(c, now) == [f \in DOMAIN c |-> cached(c, f, now)]

\* a call of a cached function: the stored result, or the function runs,
\* computes v and the result is stored
access(c, f, now, v) ==
    LET e == cached(c, f, now) IN
    IF e.some THEN [cache |-> c, value |-> e.value, fetched |-> FALSE]
    ELSE [cache |-> [c EXCEPT ![f] = Entry(v, now)], value |-> v, fetched |-> TRUE]

Noted(p, f, a, now) == IF a.fetched THEN [p EXCEPT ![f] = Entry(a.value, now)] ELSE p

Issued(a, name) == IF a.fetched THEN <<name>> ELSE <<>>

InitSession ==
    /\ script \in Scripts
    /\ pc = "start"
    /\ i = 0
    /\ results = ZeroResults
    /\ fetched = ZeroFetched
    /\ seen = NothingSeen
    /\ mm_amber = 0
    /\ mm_jpeg = 0
    /\ adj = [total_holdings_adj |-> 0, total_sellable_adj |-> 0]
    /\ VolumesIdle
    /\ \E env \in Environments :
          /\ script = "dashboard" => env = [ETHERSCAN_API_KEY |-> "", TELEGRAM_BOT_TOKEN |-> "",
                                           TELEGRAM_CHAT_ID |-> ""]
          /\ call = [fn |-> "start", env |-> env, eth_key |-> "", refresh |-> FALSE]
    /\ ret = <<>>
    /\ cache = Cleared
    /\ clock = 0
    /\ requests = <<>>
    /\ produced = Cleared

\* telegram_report.py, the module-level check of the credentials
CheckCredentials ==
    /\ script = "digest"
    /\ pc = "start"
    /\ pc' = IF credentials_missing(call.env) THEN "exited" ELSE "main"
    /\ UNCHANGED <<script, i, results, fetched, seen, mm_amber, mm_jpeg, adj, call, ret,
                   volVars, sessionVars>>

MaxEntries == 5      \* entries of the rewards schedule

\* REWARDS_SCHEDULE: (date, pool), one entry every second day, ascending
REWARDS_SCHEDULE == [k \in 1..MaxEntries |-> <<2 * k, k>>]

\* datetime.now(timezone.utc).date(): from before the first entry to after the last
Todays == 0..(2 * MaxEntries + 1)

\* enso_positions.csv as the projection needs it: no readable file, a file
\* without the owner or stake column, or the stake weights of the foundation
\* and of all positions
Datasets ==
    {[kind |-> "none", fdn |-> 0, total |-> 0], [kind |-> "malformed", fdn |-> 0, total |-> 0]}
        \cup {[kind |-> "ok", fdn |-> w[1], total |-> w[2]] :
                 w \in {<<0, 0>>, <<0, 1>>, <<1, 1>>, <<1, 2>>}}

\* the snapshots load_holdings hands to build_message
DigestSnapshots ==
    {[r EXCEPT !.total_sellable = total_sellable(r),
               !.total_holdings = tg_total_holdings(r, r.mm_holdings)] :
        r \in {[ZeroResults EXCEPT !.liquid = l, !.staked_total = e, !.staked_expired = e,
                                   !.mm_holdings = MM_AMBER + MM_JPEG] :
                   l \in {0, 1}, e \in {0, 1}}}

NoProjection == [none |-> TRUE, rows |-> <<>>]

\* [(d, m) for d, m in REWARDS_SCHEDULE if date(d) >= today]
RECURSIVE future(_, _)
future(schedule, today) ==
    IF schedule = <<>> THEN <<>>
    ELSE IF Head(schedule)[1] >= today
         THEN <<Head(schedule)>> \o future(Tail(schedule), today)
         ELSE future(Tail(schedule), today)

\* the projection over the first three entries of the schedule, past or not
load_staking_rewards_projection_unfiltered(pos_df, today) ==
    IF pos_df.kind # "ok" \/ pos_df.total = 0 THEN NoProjection
    ELSE [none |-> FALSE,
          rows |-> [k \in 1..Min(3, Len(REWARDS_SCHEDULE)) |->
                      [label |-> REWARDS_SCHEDULE[k][1],
                       reward |-> Quotient(REWARDS_SCHEDULE[k][2] * 4 * pos_df.fdn,
                                           5 * pos_df.total)]]]

\* load_staking_rewards_projection(): reward = pool * 0.80 * fdn_share for
\* the first three entries dated today or later
load_staking_rewards_projection(pos_df, today) ==
    IF pos_df.kind = "none" THEN NoProjection
    ELSE IF pos_df.kind = "malformed" THEN NoProjection
    ELSE IF pos_df.total = 0 THEN NoProjection
    ELSE LET f == future(REWARDS_SCHEDULE, today) IN
         IF f = <<>> THEN NoProjection
         ELSE LET next_3 == SubSeq(f, 1, Min(3, Len(f))) IN
              [none |-> FALSE,
               rows |-> [k \in DOMAIN next_3 |->
                           [label |-> next_3[k][1],
                            reward |-> Quotient(next_3[k][2] * 4 * pos_df.fdn,
                                                5 * pos_df.total)]]]

\* fmt(value): f"{value:,.0f}"
fmt(value) == round(value)

Line(label, value) == [label |-> label, value |-> value]

\* build_message(): the lines of the message
build_message(h, rewards_proj, today) ==
    <<Line("ENSO Foundation - Treasury Report", 0),
      Line("today", today),
      Line("Total Holdings", fmt(Quotient(h.total_holdings, 1))),
      Line("Total Sellable", fmt(Quotient(h.total_sellable, 1))),
      Line("Holdings Breakdown", 0),
      Line("Liquid (ETH)", fmt(Quotient(h.liquid, 1))),
      Line("Liquid (BSC)", fmt(Quotient(h.liquid_bsc, 1))),
      Line("Vested Unclaimed", fmt(Quotient(h.vested_unclaimed, 1))),
      Line("Staked (Expired)", fmt(Quotient(h.staked_expired, 1))),
      Line("Staked (Locked)", fmt(Quotient(h.staked_locked, 1))),
      Line("Staking Rewards", fmt(Quotient(h.rewards, 1))),
      Line("Locked Unvested", fmt(Quotient(h.locked_vesting, 1))),
      Line("Market Makers", fmt(Quotient(h.mm_holdings, 1)))>>
    \o (IF rewards_proj.none \/ rewards_proj.rows = <<>> THEN <<>>
        ELSE <<Line("Expected Staking Rewards (next 3 months)", 0)>>
             \o [k \in DOMAIN rewards_proj.rows |->
                    Line(rewards_proj.rows[k].label, fmt(rewards_proj.rows[k].reward))])

\* build_message(): load_holdings(), load_staking_rewards_projection() and
\* the text of the message
BuildMessage ==
    /\ script = "digest"
    /\ pc = "main"
    /\ requests' = Append(requests, "load_holdings")
    /\ \/ /\ pc' = "raised"
          /\ UNCHANGED <<results, call, ret>>
       \/ \E h \in DigestSnapshots, pos_df \in Datasets, today \in Todays :
             /\ pc' = "built"
             /\ results' = h
             /\ call' = [fn |-> "build_message", env |-> call.env, eth_key |-> "",
                         refresh |-> FALSE, pos_df |-> pos_df, today |-> today]
             /\ ret' = build_message(h, load_staking_rewards_projection(pos_df, today), today)
    /\ UNCHANGED <<script, i, fetched, seen, mm_amber, mm_jpeg, adj,
                   volVars, cache, clock, produced>>

\* send_telegram(message)
SendTelegram ==
    /\ script = "digest"
    /\ pc = "built"
    /\ pc' = "sent"
    /\ requests' = Append(requests, "send_telegram")
    /\ UNCHANGED <<script, i, results, fetched, seen, mm_amber, mm_jpeg, adj, call, ret,
                   volVars, cache, clock, produced>>

\* one run of report_dashboard.py: the sidebar (key box, st.stop(), Refresh),
\* then load_holdings(eth_key), load_spot_volumes(), load_perp_volumes(),
\* get_enso_price and get_circulating_supply
Rerun ==
    /\ script = "dashboard"
    /\ \E eth_key \in Keys, refresh \in BOOLEAN :
       IF eth_key = ""
       THEN /\ pc' = "stopped"
            /\ call' = [call EXCEPT !.fn = "rerun", !.eth_key = "", !.refresh = FALSE]
            /\ ret' = <<>>
            /\ requests' = <<>>
            /\ UNCHANGED <<cache, produced>>
       ELSE \E h \in Snapshots \cup {"raise"}, s \in Snapshots, p \in Snapshots :
            LET c0 == IF refresh THEN Cleared ELSE expire(cache, clock)
                p0 == IF refresh THEN Cleared ELSE produced
                fh == [fn |-> "load_holdings", arg |-> eth_key]
                fs == [fn |-> "load_spot_volumes", arg |-> ""]
                fp == [fn |-> "load_perp_volumes", arg |-> ""]
                ah == access(c0, fh, clock, h)
                as == access(ah.cache, fs, clock, s)
                ap == access(as.cache, fp, clock, p)
            IN
            /\ call' = [call EXCEPT !.fn = "rerun", !.eth_key = eth_key, !.refresh = refresh]
            /\ IF ah.fetched /\ h = "raise"
               THEN /\ pc' = "raised"
                    /\ cache' = c0
                    /\ produced' = p0
                    /\ requests' = <<"load_holdings">>
                    /\ ret' = [load_holdings |-> [value |-> "raise", fetched |-> TRUE]]
               ELSE /\ pc' = "rendered"
                    /\ cache' = ap.cache
                    /\ produced' = Noted(Noted(Noted(p0, fh, ah, clock), fs, as, clock),
                                         fp, ap, clock)
                    /\ requests' = Issued(ah, "load_holdings")
                                     \o Issued(as, "load_spot_volumes")
                                     \o Issued(ap, "load_perp_volumes")
                                     \o <<"get_enso_price", "get_circulating_supply">>
                    /\ ret' = [load_holdings |-> [value |-> ah.value, fetched |-> ah.fetched],
                               load_spot_volumes |-> [value |-> as.value, fetched |-> as.fetched],
                               load_perp_volumes |-> [value |-> ap.value, fetched |-> ap.fetched]]
    /\ UNCHANGED <<script, i, results, fetched, seen, mm_amber, mm_jpeg, adj, volVars, clock>>

\* time passes between two runs of the dashboard script
TimePasses ==
    /\ script = "dashboard"
    /\ clock < MaxTicks * Tick
    /\ clock' = clock + Tick
    /\ UNCHANGED <<holdingsVars, call, ret, volVars, cache, requests, produced>>

NextSession == CheckCredentials \/ BuildMessage \/ SendTelegram \/ Rerun \/ TimePasses

SpecSession == InitSession /\ [][NextSession]_vars

\* C18: when a required credential is absent the run halts before any
\* external fetch is issued: the digest exits at startup if one of its three
\* credentials is empty, and the dashboard stops before load_holdings, the
\* volume loaders and the price and supply reads if the Etherscan key is empty.
C18_MissingCredentialHaltsBeforeFetch ==
    /\ (script = "digest"
          /\ \E name \in {"ETHERSCAN_API_KEY", "TELEGRAM_BOT_TOKEN", "TELEGRAM_CHAT_ID"} :
                call.env[name] = "")
       => (requests = <<>> /\ pc \in {"start", "exited"})
    /\ (script = "dashboard" /\ call.fn = "rerun" /\ call.eth_key = "")
       => (requests = <<>> /\ ret = <<>> /\ pc = "stopped")

\* the digest has exited with the Etherscan key set and the chat id empty
C18_Witness ==
    /\ script = "digest"
    /\ pc = "exited"
    /\ call.env.ETHERSCAN_API_KEY # ""
    /\ call.env.TELEGRAM_CHAT_ID = ""
    /\ requests = <<>>

\* the dashboard has stopped on an empty key box, results still cached
C18_DashboardStopped ==
    /\ script = "dashboard"
    /\ pc = "stopped"
    /\ \E f \in CachedCalls : cache[f].some
    /\ requests = <<>>

Message == script = "digest" /\ pc \in {"built", "sent"}

Has(label, value) == \E k \in DOMAIN ret : ret[k] = Line(label, value)

Section == \E k \in DOMAIN ret : ret[k].label = "Expected Staking Rewards (next 3 months)"

\* the lines of the message after the title of the projection section
SectionRows ==
    LET t == CHOOSE k \in DOMAIN ret : ret[k].label = "Expected Staking Rewards (next 3 months)"
    IN SubSeq(ret, t + 1, Len(ret))

\* position-weight data: a readable dataset with a stake weight above 0
WeightData == call.pos_df.kind = "ok" /\ call.pos_df.total > 0

\* the schedule entries dated today or later, by index
Coming == {k \in DOMAIN REWARDS_SCHEDULE : REWARDS_SCHEDULE[k][1] >= call.today}

HoldingsLines ==
    /\ Has("Total Holdings", results.total_holdings)
    /\ Has("Total Sellable", results.total_sellable)
    /\ Has("Liquid (ETH)", results.liquid)
    /\ Has("Liquid (BSC)", results.liquid_bsc)
    /\ Has("Vested Unclaimed", results.vested_unclaimed)
    /\ Has("Staked (Expired)", results.staked_expired)
    /\ Has("Staked (Locked)", results.staked_locked)
    /\ Has("Staking Rewards", results.rewards)
    /\ Has("Locked Unvested", results.locked_vesting)
    /\ Has("Market Makers", results.mm_holdings)

\* the section lists at most 3 entries: the earliest schedule dates on or
\* after today, in schedule order
EarliestComing ==
    /\ Len(SectionRows) = Min(3, Cardinality(Coming))
    /\ \A j \in DOMAIN SectionRows :
          \E k \in Coming :
             /\ SectionRows[j].label = REWARDS_SCHEDULE[k][1]
             /\ Cardinality({m \in Coming : m < k}) = j - 1

\* C24 as stated: the message always holds total holdings, total sellable and
\* the breakdown, and holds the projection section exactly when position-weight
\* data is available from the dataset, then with at most 3 entries, the
\* earliest schedule dates on or after today in schedule order.
C24_ProjectionIffWeightData ==
    Message =>
        /\ HoldingsLines
        /\ Section <=> WeightData
        /\ Section => EarliestComing

\* C24, amended: the section is there exactly when position-weight data is
\* available and the schedule has an entry dated today or later.
C24_ProjectionIffWeightDataAndComingDate ==
    Message =>
        /\ HoldingsLines
        /\ Section <=> (WeightData /\ Coming # {})
        /\ Section => EarliestComing

\* a message whose section lists the 3 earliest of more than 3 coming entries,
\* the first entry of the schedule already past
C24_Witness ==
    /\ Message
    /\ Section
    /\ Cardinality(Coming) > 3
    /\ Cardinality(Coming) < Len(REWARDS_SCHEDULE)
    /\ Len(SectionRows) = 3
    /\ results.total_sellable > 0

\* a step that is a run of the dashboard script past the sidebar
RerunStep == script = "dashboard" /\ clock' = clock /\ pc' \in {"rendered", "raised"}

\* the call f is made in that run
Accessed(f) ==
    /\ f.fn \in DOMAIN ret'
    /\ f.fn = "load_holdings" => f.arg = call'.eth_key

InWindow(e) == e.some /\ clock - e.at < ttl

\* C20 as stated: once a cached function has produced a result, every later
\* access within the 10-minute window returns the identical cached value
\* without an external fetch, unless the cache was cleared by hand.
C20_CachedWithinWindow ==
    [][RerunStep =>
         \A fn \in DOMAIN ret' :
            LET priors == {g \in CachedCalls : g.fn = fn /\ InWindow(produced[g])} IN
            (~call'.refresh /\ priors # {}) =>
                /\ ~ret'[fn].fetched
                /\ \E g \in priors : ret'[fn].value = produced[g].value]_vars

\* C20, amended: an access returns the stored value without a fetch exactly
\* when the same function was called with the same argument less than ttl
\* ago and the cache was not cleared since; after a clear, after the window,
\* and for an Etherscan key not seen in the window, the function runs again.
C20_CachedPerArgumentWithinWindow ==
    [][RerunStep =>
         \A f \in CachedCalls :
            Accessed(f) =>
                LET prior == IF call'.refresh THEN NoEntry ELSE produced[f] IN
                /\ InWindow(prior) => ret'[f.fn] = [value |-> prior.value, fetched |-> FALSE]
                /\ (~prior.some \/ clock - prior.at > ttl) => ret'[f.fn].fetched]_vars

\* a run without Refresh, later than the fetches it relies on, that fetched
\* nothing cached although results for both keys are stored
C20_Witness ==
    /\ script = "dashboard"
    /\ pc = "rendered"
    /\ ~call.refresh
    /\ \A fn \in DOMAIN ret : ~ret[fn].fetched
    /\ \A f \in CachedCalls : produced[f].some /\ produced[f].at < clock
    /\ ret.load_holdings.value = produced[[fn |-> "load_holdings", arg |-> call.eth_key]].value
    /\ requests = <<"get_enso_price", "get_circulating_supply">>

====
